---- MODULE Spec2Model ----
(***************************************************************************)
(* The MCP access layer of memos (server/router/mcp): the memo tools, the  *)
(* visibility policy, tag extraction and the backing store they call.      *)
(* Strings that the code inspects character by character (memo content,    *)
(* tags) are sequences of one-character strings; enum-like strings         *)
(* (visibility, state) are TLA+ strings.                                   *)
(***************************************************************************)
EXTENDS Integers, Sequences, FiniteSets, TLC

VARIABLES
  memos,      \* the store's memo table: row id -> row
  relations,  \* the store's memo_relation table: a set of rows
  nextID,     \* the store's next auto-increment row id
  calls,      \* per session slot, the tool call in flight and its locals
  last        \* the result being handed back to a caller (NoResult: none)

vars == <<memos, relations, nextID, calls, last>>

----------------------------------------------------------------------------
(* Bounds of the model *)

\* Rows the store ever creates (caps nextID).
MaxMemos == 2
\* Rows already in the store when the policy specification starts.
MaxSeed == 2
\* Longest content of the texts the create specification enumerates.
MaxLen == 5

(* Program constants *)
Anonymous == 0
DefaultPageSize == 20
MaxPageSize == 100
SearchLimit == 50

Users == {1, 2}
Callers == {Anonymous} \cup Users
Slots == {"s1", "s2"}

Public == "PUBLIC"
Protected == "PROTECTED"
Private == "PRIVATE"
KnownVisibilities == {Public, Protected, Private}
Normal == "NORMAL"
Archived == "ARCHIVED"
MemoRelationComment == "COMMENT"

Nil == [nil |-> TRUE]
EmptyUID == <<>>
\* MemoPayload.Property as the set of its flags that are true (a nil Property
\* and one with every flag false serialise alike).
PropertyFlags == {"has_link", "has_task_list", "has_code", "has_incomplete_tasks"}

\* shortuuid.New(): a fresh identifier per created memo.
UIDOf(n) == <<"uid", n>>

----------------------------------------------------------------------------
(* Characters *)

Letters ==
  {"a","b","c","d","e","f","g","h","i","j","k","l","m","n","o","p","q","r",
   "s","t","u","v","w","x","y","z","A","B","C","D","E","F","G","H","I","J",
   "K","L","M","N","O","P","Q","R","S","T","U","V","W","X","Y","Z"}
Whitespace == {" ", "\t", "\n", "\f", "\r"}
Hash == "#"

IsTagChar_NoComma(ch) == ch \notin Whitespace /\ ch # Hash /\ ch # ","
IsTagChar(ch) == ch \notin Whitespace /\ ch # Hash

SetMin(S) == CHOOSE x \in S : \A y \in S : x <= y
SetMax(S) == CHOOSE x \in S : \A y \in S : x >= y

\* tagRegexp is  (?:^|\s)#([A-Za-z][^\s#]*) : a '#' at the very start of the
\* text or right after one whitespace character, then a letter, then the
\* greedy run of characters that are neither whitespace nor '#'.
\* Index of the '#' of a match that begins at i, or 0 when none begins there.
tagRegexpHashAt_Anywhere(s, i) ==
  IF i + 1 <= Len(s) /\ s[i] = Hash /\ s[i + 1] \in Letters THEN i ELSE 0
tagRegexpHashAt(s, i) ==
  IF i = 1 /\ Len(s) >= 2 /\ s[1] = Hash /\ s[2] \in Letters THEN 1
  ELSE IF i + 2 <= Len(s) /\ s[i] \in Whitespace /\ s[i + 1] = Hash
          /\ s[i + 2] \in Letters THEN i + 1
  ELSE 0

\* Last index of the greedy run [^\s#]* that starts at the letter at index j.
tagRegexpEnd(s, j) ==
  LET stops == {k \in j..Len(s) : ~IsTagChar(s[k])}
  IN IF stops = {} THEN Len(s) ELSE SetMin(stops) - 1

\* FindAllStringSubmatch: leftmost non-overlapping matches, scanning from `from`.
RECURSIVE FindAllStringSubmatch(_, _)
FindAllStringSubmatch(s, from) ==
  LET starts == {i \in from..Len(s) : tagRegexpHashAt(s, i) # 0}
  IN IF starts = {} THEN <<>>
     ELSE LET i == SetMin(starts)
              h == tagRegexpHashAt(s, i)
              e == tagRegexpEnd(s, h + 1)
          IN <<SubSeq(s, h + 1, e)>> \o FindAllStringSubmatch(s, e + 1)

SeqRange(q) == {q[i] : i \in 1..Len(q)}

\* The seen-map loop of extractTags: keep the first occurrence of each tag.
RECURSIVE DedupTags(_, _)
DedupTags(matches, tags) ==
  IF matches = <<>> THEN tags
  ELSE DedupTags(Tail(matches),
                 IF Head(matches) \in SeqRange(tags) THEN tags
                 ELSE Append(tags, Head(matches)))

extractTags(content) == DedupTags(FindAllStringSubmatch(content, 1), <<>>)

\* A MemoPayload holding only tags; Nil when the content has no tag.
buildPayload(content) ==
  LET tags == extractTags(content)
  IN IF Len(tags) = 0 THEN Nil ELSE [Tags |-> tags, Property |-> {}]

----------------------------------------------------------------------------
(* Requests *)

\* A resource name split at the length of the prefix "memos/".
MemoName(uid) == [prefix |-> "memos/", rest |-> uid]

parseMemoUID(name) ==
  IF name.prefix = "memos/" /\ name.rest # EmptyUID
  THEN [ok |-> TRUE, uid |-> name.rest]
  ELSE [ok |-> FALSE, uid |-> EmptyUID]

parseVisibility(s) ==
  IF s \in {Public, Protected, Private}
  THEN [ok |-> TRUE, v |-> s] ELSE [ok |-> FALSE, v |-> ""]

parseRowStatus(s) ==
  IF s \in {Normal, Archived}
  THEN [ok |-> TRUE, v |-> s] ELSE [ok |-> FALSE, v |-> ""]

\* req.GetString / GetInt / GetBool: the argument when present, else the default.
GetArg(args, key, default) ==
  IF key \in DOMAIN args THEN args[key] ELSE default

NoArgs == [k \in {} |-> TRUE]

----------------------------------------------------------------------------
(* VisibilityPolicy *)

checkMemoAccess_Any(memo, userID) == TRUE
checkMemoAccess_PrivateOpen(memo, userID) ==
  CASE memo.Visibility = Protected -> userID # Anonymous
    [] memo.Visibility = Private -> userID # Anonymous
    [] OTHER -> TRUE
checkMemoAccess_DenyUnknown(memo, userID) ==
  CASE memo.Visibility = Public -> TRUE
    [] memo.Visibility = Protected -> userID # Anonymous
    [] memo.Visibility = Private -> memo.CreatorID = userID
    [] OTHER -> FALSE

\* TRUE when checkMemoAccess returns nil (no error).
checkMemoAccess(memo, userID) ==
  CASE memo.Visibility = Protected -> userID # Anonymous
    [] memo.Visibility = Private -> memo.CreatorID = userID
    [] OTHER -> TRUE

\* The filter expression  creator_id == %d || visibility in ["PUBLIC", "PROTECTED"].
CreatorOrVisible(userID) ==
  [kind |-> "creator_or_visibility", creator |-> userID,
   visibilities |-> {Public, Protected}]

applyVisibilityFilter_Protected(find, userID) ==
  IF userID = Anonymous
  THEN [find EXCEPT !.VisibilityList = <<Public, Protected>>]
  ELSE [find EXCEPT !.Filters = Append(@, CreatorOrVisible(userID))]
applyVisibilityFilter(find, userID) ==
  IF userID = Anonymous
  THEN [find EXCEPT !.VisibilityList = <<Public>>]
  ELSE [find EXCEPT !.Filters = Append(@, CreatorOrVisible(userID))]

----------------------------------------------------------------------------
(* Serialisation *)

storeMemoToJSON(m) ==
  [name |-> MemoName(m.UID),
   creator |-> m.CreatorID,
   content |-> m.Content,
   visibility |-> m.Visibility,
   pinned |-> m.Pinned,
   state |-> m.RowStatus,
   tags |-> IF m.Payload # Nil /\ Len(m.Payload.Tags) > 0
            THEN m.Payload.Tags ELSE <<>>,
   property |-> IF m.Payload # Nil /\ m.Payload.Property # {}
                THEN m.Payload.Property ELSE {},
   parent |-> IF m.ParentUID # EmptyUID THEN MemoName(m.ParentUID) ELSE Nil]

----------------------------------------------------------------------------
(* The store (package store: the memo and memo_relation tables) *)

FindMemo ==
  [UID |-> EmptyUID, ID |-> 0, IDList |-> {}, UseIDList |-> FALSE,
   RowStatus |-> "", VisibilityList |-> <<>>, Filters |-> <<>>,
   ExcludeComments |-> FALSE, ExcludeContent |-> FALSE,
   OrderByPinned |-> FALSE, Limit |-> -1, Offset |-> 0]

\* A filter expression evaluated on one row.
EvalFilter(f, m) ==
  CASE f.kind = "creator_or_visibility" ->
         m.CreatorID = f.creator \/ m.Visibility \in f.visibilities
    [] f.kind = "content_contains" ->
         \E i \in 1..(Len(m.Content) + 1) :
           /\ i + Len(f.text) - 1 <= Len(m.Content)
           /\ SubSeq(m.Content, i, i + Len(f.text) - 1) = f.text
    [] f.kind = "tag_exists" ->
         m.Payload # Nil /\ f.tag \in SeqRange(m.Payload.Tags)
    [] OTHER -> FALSE

\* The WHERE clause of ListMemos: every restriction of find is ANDed.
MatchesFind(find, m) ==
  /\ find.UID # EmptyUID => m.UID = find.UID
  /\ find.ID # 0 => m.ID = find.ID
  /\ find.UseIDList => m.ID \in find.IDList
  /\ find.RowStatus # "" => m.RowStatus = find.RowStatus
  /\ find.VisibilityList # <<>> => m.Visibility \in SeqRange(find.VisibilityList)
  /\ find.ExcludeComments => m.ParentUID = EmptyUID
  /\ \A i \in 1..Len(find.Filters) : EvalFilter(find.Filters[i], m)

\* ORDER BY [pinned DESC,] created DESC: row a comes before row b.
RowBefore(a, b, orderByPinned) ==
  IF orderByPinned /\ a.Pinned # b.Pinned THEN a.Pinned ELSE a.ID > b.ID

RECURSIVE SortRows(_, _)
SortRows(rows, orderByPinned) ==
  IF rows = {} THEN <<>>
  ELSE LET first == CHOOSE a \in rows :
                      \A b \in rows \ {a} : RowBefore(a, b, orderByPinned)
       IN <<first>> \o SortRows(rows \ {first}, orderByPinned)

Window(q, offset, limit) ==
  LET from == offset + 1
      to == IF limit < 0 \/ offset + limit > Len(q) THEN Len(q)
            ELSE offset + limit
  IN SubSeq(q, from, to)

StoreListMemos(table, find) ==
  LET rows == {table[id] : id \in {i \in DOMAIN table : MatchesFind(find, table[i])}}
      shown == {IF find.ExcludeContent THEN [m EXCEPT !.Content = <<>>] ELSE m :
                  m \in rows}
  IN Window(SortRows(shown, find.OrderByPinned), find.Offset, find.Limit)

\* GetMemo: the first row ListMemos finds, or Nil.
StoreGetMemo(table, find) ==
  LET list == StoreListMemos(table, find)
  IN IF Len(list) = 0 THEN Nil ELSE list[1]

\* CreateMemo: insert the draft under the next row id; unset columns default.
StoreCreateMemo(table, id, draft) ==
  [i \in DOMAIN table \cup {id} |->
     IF i = id
     THEN [ID |-> id, UID |-> draft.UID, CreatorID |-> draft.CreatorID,
           Content |-> draft.Content, Visibility |-> draft.Visibility,
           RowStatus |-> Normal, Pinned |-> FALSE,
           Payload |-> draft.Payload, ParentUID |-> draft.ParentUID]
     ELSE table[i]]

\* UpdateMemo: SET only the columns the update carries (a nil pointer is not set).
StoreUpdateRow(m, update) ==
  [m EXCEPT
     !.Content = IF update.Content # Nil THEN update.Content.v ELSE @,
     !.Visibility = IF update.Visibility # Nil THEN update.Visibility.v ELSE @,
     !.RowStatus = IF update.RowStatus # Nil THEN update.RowStatus.v ELSE @,
     !.Pinned = IF update.Pinned # Nil THEN update.Pinned.v ELSE @,
     !.Payload = IF update.Payload # Nil THEN update.Payload ELSE @]

StoreUpdateMemo(table, update) ==
  [i \in DOMAIN table |->
     IF i = update.ID THEN StoreUpdateRow(table[i], update) ELSE table[i]]

StoreDeleteMemo(table, id) ==
  [i \in DOMAIN table \ {id} |-> table[i]]

StoreListMemoRelations(rels, relatedMemoID, type) ==
  {r \in rels : r.RelatedMemoID = relatedMemoID /\ r.Type = type}

\* UpsertMemoRelation: (memo, related, type) is the table's key.
StoreUpsertMemoRelation(rels, r) == rels \cup {r}

----------------------------------------------------------------------------
(* Tool results *)

ErrUnauthenticated == "unauthenticated: a personal access token is required"
ErrMemoName == "memo name must be in the format memos/<uid>"
ErrNotFound == "memo not found"
ErrDenied == "permission denied"
ErrContentRequired == "content is required"
ErrVisibility == "visibility must be PRIVATE, PROTECTED, or PUBLIC"
ErrState == "state must be NORMAL or ARCHIVED"
ErrGetMemo == "failed to get memo"
ErrListMemos == "failed to list memos"
ErrCreateMemo == "failed to create memo"
ErrUpdateMemo == "failed to update memo"
ErrFetchUpdated == "failed to fetch updated memo"
ErrDeleteMemo == "failed to delete memo"
ErrCreateComment == "failed to create comment"
ErrLinkComment == "failed to link comment"
ErrListRelations == "failed to list relations"
ErrListComments == "failed to list comments"
ErrQueryRequired == "query is required"
ErrSearchMemos == "failed to search memos"
ErrMemoURI == "invalid memo URI: expected memo://memos/<uid>"
ErrResourceNotFound == "memo not found: <uid>"

\* What a step hands back to the caller. req is the call's arguments; find is
\* the query the handler sent to ListMemos (Nil when it sent none).
Call(op, caller, req) == [op |-> op, caller |-> caller, req |-> req]

\* mcp.NewToolResultError
NewToolResultError(call, msg) ==
  [op |-> call.op, caller |-> call.caller, req |-> call.req,
   kind |-> "error", err |-> msg, body |-> Nil, find |-> Nil]

\* mcp.NewToolResultText
NewToolResultText(call, body, find) ==
  [op |-> call.op, caller |-> call.caller, req |-> call.req,
   kind |-> "text", err |-> "", body |-> body, find |-> find]

\* A resource handler returning (nil, err): the read fails as a whole.
ResourceError(call, msg) ==
  [op |-> call.op, caller |-> call.caller, req |-> call.req,
   kind |-> "handler_error", err |-> msg, body |-> Nil, find |-> Nil]

\* A resource handler returning one mcp.TextResourceContents.
TextResourceContents(call, text) ==
  [op |-> call.op, caller |-> call.caller, req |-> call.req,
   kind |-> "resource", err |-> "", body |-> text, find |-> Nil]

\* The handler dereferenced a nil pointer: the call ends without a result.
Panicked(call) ==
  [op |-> call.op, caller |-> call.caller, req |-> call.req,
   kind |-> "panic", err |-> "nil pointer dereference", body |-> Nil,
   find |-> Nil]

\* No result is waiting to be written to a session.
NoResult == [op |-> "", caller |-> Anonymous, req |-> Nil,
             kind |-> "none", err |-> "", body |-> Nil, find |-> Nil]

Idle == [pc |-> "idle"]

\* The transport writes the pending result to the caller's session.
Deliver ==
  /\ last # NoResult
  /\ last' = NoResult
  /\ UNCHANGED <<memos, relations, nextID, calls>>

----------------------------------------------------------------------------
(* Read tools: one store call each *)

getMemoResult(table, call, storeOK) ==
  LET p == parseMemoUID(call.req.name)
      memo == StoreGetMemo(table, [FindMemo EXCEPT !.UID = p.uid])
  IN IF ~p.ok THEN NewToolResultError(call, ErrMemoName)
     ELSE IF ~storeOK THEN NewToolResultError(call, ErrGetMemo)
     ELSE IF memo = Nil THEN NewToolResultError(call, ErrNotFound)
     ELSE IF ~checkMemoAccess(memo, call.caller)
          THEN NewToolResultError(call, ErrDenied)
     ELSE NewToolResultText(call, storeMemoToJSON(memo), Nil)

handleGetMemo(userID, name, storeOK) ==
  /\ last = NoResult
  /\ last' = getMemoResult(memos, Call("get_memo", userID, [name |-> name]), storeOK)
  /\ UNCHANGED <<memos, relations, nextID, calls>>

\* The page size and page index handleListMemos works with.
listPageSize_Clamp(args) ==
  LET requested == GetArg(args, "page_size", DefaultPageSize)
  IN IF requested < 1 THEN 1
     ELSE IF requested > MaxPageSize THEN MaxPageSize
     ELSE requested
listPageSize(args) ==
  LET requested == GetArg(args, "page_size", DefaultPageSize)
  IN IF requested <= 0 THEN DefaultPageSize
     ELSE IF requested > MaxPageSize THEN MaxPageSize
     ELSE requested

listPage(args) ==
  LET requested == GetArg(args, "page", 0)
  IN IF requested < 0 THEN 0 ELSE requested

listMemosFind_FilterOnly(userID, args, rowStatus) ==
  LET pageSize == listPageSize(args)
      base == [FindMemo EXCEPT
                 !.ExcludeComments = TRUE,
                 !.RowStatus = rowStatus,
                 !.Limit = pageSize + 1,
                 !.Offset = listPage(args) * pageSize,
                 !.OrderByPinned = GetArg(args, "order_by_pinned", FALSE)]
      restricted == applyVisibilityFilter(base, userID)
      filter == GetArg(args, "filter", Nil)
  IN IF filter # Nil
     THEN [restricted EXCEPT !.Filters = <<filter>>]
     ELSE restricted
\* The FindMemo handleListMemos builds once the state argument is accepted.
listMemosFind(userID, args, rowStatus) ==
  LET pageSize == listPageSize(args)
      base == [FindMemo EXCEPT
                 !.ExcludeComments = TRUE,
                 !.RowStatus = rowStatus,
                 !.Limit = pageSize + 1,
                 !.Offset = listPage(args) * pageSize,
                 !.OrderByPinned = GetArg(args, "order_by_pinned", FALSE)]
      restricted == applyVisibilityFilter(base, userID)
      filter == GetArg(args, "filter", Nil)
  IN IF filter # Nil
     THEN [restricted EXCEPT !.Filters = Append(@, filter)]
     ELSE restricted

\* hasMore := len(memos) > pageSize
listHasMore_AtLeast(rows, pageSize) == Len(rows) >= pageSize
listHasMore(rows, pageSize) == Len(rows) > pageSize

MapJSON(rows) == [i \in 1..Len(rows) |-> storeMemoToJSON(rows[i])]

listMemosResult(table, call, storeOK) ==
  LET args == call.req.args
      state == GetArg(args, "state", Normal)
      rs == parseRowStatus(state)
      find == listMemosFind(call.caller, args, IF state # "" THEN rs.v ELSE "")
      rows == StoreListMemos(table, find)
      pageSize == listPageSize(args)
      hasMore == listHasMore(rows, pageSize)
      page == IF hasMore THEN SubSeq(rows, 1, pageSize) ELSE rows
  IN IF state # "" /\ ~rs.ok THEN NewToolResultError(call, ErrState)
     ELSE IF ~storeOK THEN NewToolResultError(call, ErrListMemos)
     ELSE NewToolResultText(call, [memos |-> MapJSON(page), has_more |-> hasMore],
                            find)

handleListMemos(userID, args, storeOK) ==
  /\ last = NoResult
  /\ last' = listMemosResult(memos, Call("list_memos", userID, [args |-> args]),
                             storeOK)
  /\ UNCHANGED <<memos, relations, nextID, calls>>

(* search_memos *)

searchMemosFind_AnyStatus(userID, query) ==
  applyVisibilityFilter(
    [FindMemo EXCEPT
       !.ExcludeComments = TRUE,
       !.Limit = SearchLimit,
       !.Offset = 0,
       !.Filters = <<[kind |-> "content_contains", text |-> query]>>],
    userID)
\* The FindMemo of handleSearchMemos: content.contains(query), NORMAL rows,
\* 50 rows from offset 0, then the caller's visibility restriction.
searchMemosFind(userID, query) ==
  applyVisibilityFilter(
    [FindMemo EXCEPT
       !.ExcludeComments = TRUE,
       !.RowStatus = Normal,
       !.Limit = SearchLimit,
       !.Offset = 0,
       !.Filters = <<[kind |-> "content_contains", text |-> query]>>],
    userID)

searchMemosResult(table, call, storeOK) ==
  LET query == GetArg(call.req.args, "query", <<>>)
      find == searchMemosFind(call.caller, query)
  IN IF query = <<>> THEN NewToolResultError(call, ErrQueryRequired)
     ELSE IF ~storeOK THEN NewToolResultError(call, ErrSearchMemos)
     ELSE NewToolResultText(call, MapJSON(StoreListMemos(table, find)), find)

handleSearchMemos(userID, args, storeOK) ==
  /\ last = NoResult
  /\ last' = searchMemosResult(memos, Call("search_memos", userID, [args |-> args]),
                               storeOK)
  /\ UNCHANGED <<memos, relations, nextID, calls>>

(* The memo resource memo://memos/{uid} *)

\* A URI split at the length of the prefix "memo://memos/".
MemoURI(uid) == [prefix |-> "memo://memos/", rest |-> uid]

\* strings.TrimPrefix and the test  uid == URI || uid == "".
parseMemoURI(uri) ==
  IF uri.prefix = "memo://memos/" /\ uri.rest # EmptyUID
  THEN [ok |-> TRUE, uid |-> uri.rest]
  ELSE [ok |-> FALSE, uid |-> EmptyUID]

\* The Markdown text: a frontmatter of the fields below (tags and parent only
\* when set), then the content. The property flags are not rendered.
formatMemoMarkdown(j) ==
  [name |-> j.name, creator |-> j.creator, visibility |-> j.visibility,
   state |-> j.state, pinned |-> j.pinned, tags |-> j.tags,
   parent |-> j.parent, content |-> j.content]

readMemoResourceResult_NoAccessCheck(table, call, storeOK) ==
  LET p == parseMemoURI(call.req.uri)
      memo == StoreGetMemo(table, [FindMemo EXCEPT !.UID = p.uid])
  IN IF ~p.ok THEN ResourceError(call, ErrMemoURI)
     ELSE IF ~storeOK THEN ResourceError(call, ErrGetMemo)
     ELSE IF memo = Nil THEN ResourceError(call, ErrResourceNotFound)
     ELSE TextResourceContents(call, formatMemoMarkdown(storeMemoToJSON(memo)))
readMemoResourceResult(table, call, storeOK) ==
  LET p == parseMemoURI(call.req.uri)
      memo == StoreGetMemo(table, [FindMemo EXCEPT !.UID = p.uid])
  IN IF ~p.ok THEN ResourceError(call, ErrMemoURI)
     ELSE IF ~storeOK THEN ResourceError(call, ErrGetMemo)
     ELSE IF memo = Nil THEN ResourceError(call, ErrResourceNotFound)
     ELSE IF ~checkMemoAccess(memo, call.caller)
          THEN ResourceError(call, ErrDenied)
     ELSE TextResourceContents(call, formatMemoMarkdown(storeMemoToJSON(memo)))

handleReadMemoResource(userID, uri, storeOK) ==
  /\ last = NoResult
  /\ last' = readMemoResourceResult(
               memos, Call("read_resource", userID, [uri |-> uri]), storeOK)
  /\ UNCHANGED <<memos, relations, nextID, calls>>

(* list_tags *)

\* The model's characters in byte order; Go compares strings bytewise.
CharOrder == <<" ", "#", "1", "B", "a", "b", "h", "i", "x">>
Ord(ch) == CHOOSE i \in 1..Len(CharOrder) : CharOrder[i] = ch

\* a < b on strings.
StringLess(a, b) ==
  \E i \in 1..(Len(b)) :
    /\ i <= Len(a) + 1
    /\ \A k \in 1..(i - 1) : a[k] = b[k]
    /\ i <= Len(a) => Ord(a[i]) < Ord(b[i])

\* counts[tag] after the loop over the rows and their Payload.Tags.
RECURSIVE countTag(_, _)
countTag(rows, tag) ==
  IF rows = <<>> THEN 0
  ELSE LET m == Head(rows)
           here == IF m.Payload = Nil THEN 0
                   ELSE Cardinality({k \in 1..Len(m.Payload.Tags) :
                                       m.Payload.Tags[k] = tag})
       IN here + countTag(Tail(rows), tag)

tagEntries(rows) ==
  LET tags == UNION {SeqRange(rows[i].Payload.Tags) :
                       i \in {k \in 1..Len(rows) : rows[k].Payload # Nil}}
  IN {[tag |-> t, count |-> countTag(rows, t)] : t \in tags}

tagEntryLess_ByTag(a, b) == StringLess(a.tag, b.tag)
\* The less function given to sort.Slice.
tagEntryLess(a, b) ==
  IF a.count # b.count THEN a.count > b.count ELSE StringLess(a.tag, b.tag)

RECURSIVE sortTagEntries(_)
sortTagEntries(entries) ==
  IF entries = {} THEN <<>>
  ELSE LET first == CHOOSE a \in entries :
                      \A b \in entries \ {a} : tagEntryLess(a, b)
       IN <<first>> \o sortTagEntries(entries \ {first})

listTagsFind(userID) ==
  applyVisibilityFilter(
    [FindMemo EXCEPT !.ExcludeComments = TRUE, !.RowStatus = Normal], userID)

listTagsResult(table, call, storeOK) ==
  LET find == listTagsFind(call.caller)
  IN IF ~storeOK THEN NewToolResultError(call, ErrListMemos)
     ELSE NewToolResultText(
            call, sortTagEntries(tagEntries(StoreListMemos(table, find))), find)

handleListTags(userID, storeOK) ==
  /\ last = NoResult
  /\ last' = listTagsResult(memos, Call("list_tags", userID, [args |-> NoArgs]),
                            storeOK)
  /\ UNCHANGED <<memos, relations, nextID, calls>>

----------------------------------------------------------------------------
(* Write tools. A handler with several store calls is one step per store     *)
(* call: the layer takes no lock, so other calls run between its steps.      *)
(* Between steps a slot keeps the locals the handler still reads.            *)

extractUserID_Any(userID) == TRUE
\* extractUserID: TRUE when the context carries an identity.
extractUserID(userID) == userID # Anonymous

Finish(s, result) ==
  /\ calls' = [calls EXCEPT ![s] = Idle]
  /\ last' = result

Fail(call, msg) ==
  /\ last' = NewToolResultError(call, msg)
  /\ UNCHANGED <<memos, relations, nextID, calls>>

(* create_memo *)

createMemoDraft_Public(userID, content, visibility, uid) ==
  [UID |-> uid, CreatorID |-> userID, Content |-> content,
   Visibility |-> Public, Payload |-> buildPayload(content),
   ParentUID |-> EmptyUID]
createMemoDraft(userID, content, visibility, uid) ==
  [UID |-> uid, CreatorID |-> userID, Content |-> content,
   Visibility |-> visibility, Payload |-> buildPayload(content),
   ParentUID |-> EmptyUID]

handleCreateMemo(userID, args, storeOK) ==
  LET call == Call("create_memo", userID, [args |-> args])
      content == GetArg(args, "content", <<>>)
      vis == parseVisibility(GetArg(args, "visibility", Private))
      table == StoreCreateMemo(memos, nextID,
                 createMemoDraft(userID, content, vis.v, UIDOf(nextID)))
  IN /\ last = NoResult
     /\ IF ~extractUserID(userID) THEN Fail(call, ErrUnauthenticated)
        ELSE IF content = <<>> THEN Fail(call, ErrContentRequired)
        ELSE IF ~vis.ok THEN Fail(call, ErrVisibility)
        ELSE IF ~storeOK THEN Fail(call, ErrCreateMemo)
        ELSE /\ nextID <= MaxMemos
             /\ memos' = table
             /\ nextID' = nextID + 1
             /\ last' = NewToolResultText(call, storeMemoToJSON(table[nextID]), Nil)
             /\ UNCHANGED <<relations, calls>>

(* update_memo *)

\* memo.CreatorID != userID is refused.
isOwner_CanRead(memo, userID) == checkMemoAccess(memo, userID)
isOwner(memo, userID) == memo.CreatorID = userID

updateContent_EmptySupplied(args) ==
  IF "content" \in DOMAIN args THEN [v |-> args["content"]] ELSE Nil
updateContent(args) ==
  LET v == GetArg(args, "content", <<>>)
  IN IF v # <<>> THEN [v |-> v] ELSE Nil

updatePayload(args) ==
  LET v == GetArg(args, "content", <<>>)
  IN IF v # <<>> THEN buildPayload(v) ELSE Nil

updateVisibility(args) ==
  LET v == GetArg(args, "visibility", "")
  IN IF v # "" THEN [v |-> parseVisibility(v).v] ELSE Nil

updateRowStatus(args) ==
  LET v == GetArg(args, "state", "")
  IN IF v # "" THEN [v |-> parseRowStatus(v).v] ELSE Nil

updatePinned_Always(args) == [v |-> GetArg(args, "pinned", FALSE)]
updatePinned(args) ==
  IF "pinned" \in DOMAIN args THEN [v |-> GetArg(args, "pinned", FALSE)] ELSE Nil

\* The store.UpdateMemo the handler builds from the arguments.
updateFromArgs(id, args) ==
  [ID |-> id, Content |-> updateContent(args), Payload |-> updatePayload(args),
   Visibility |-> updateVisibility(args), RowStatus |-> updateRowStatus(args),
   Pinned |-> updatePinned(args)]

updateArgsError_VisibilityOnly(args) ==
  LET vis == GetArg(args, "visibility", "")
  IN IF vis # "" /\ ~parseVisibility(vis).ok THEN ErrVisibility ELSE ""
\* The first invalid enum argument, in the order the handler parses them.
updateArgsError(args) ==
  LET vis == GetArg(args, "visibility", "")
      state == GetArg(args, "state", "")
  IN IF vis # "" /\ ~parseVisibility(vis).ok THEN ErrVisibility
     ELSE IF state # "" /\ ~parseRowStatus(state).ok THEN ErrState
     ELSE ""

\* Up to the ownership check and the building of the update.
UpdateBegin(s, userID, name, args, storeOK) ==
  LET call == Call("update_memo", userID, [name |-> name, args |-> args])
      p == parseMemoUID(name)
      memo == StoreGetMemo(memos, [FindMemo EXCEPT !.UID = p.uid])
  IN /\ last = NoResult
     /\ calls[s] = Idle
     /\ IF ~extractUserID(userID) THEN Fail(call, ErrUnauthenticated)
        ELSE IF ~p.ok THEN Fail(call, ErrMemoName)
        ELSE IF ~storeOK THEN Fail(call, ErrGetMemo)
        ELSE IF memo = Nil THEN Fail(call, ErrNotFound)
        ELSE IF ~isOwner(memo, userID) THEN Fail(call, ErrDenied)
        ELSE IF updateArgsError(args) # "" THEN Fail(call, updateArgsError(args))
        ELSE /\ calls' = [calls EXCEPT ![s] =
                  [pc |-> "update_write", call |-> call,
                   update |-> updateFromArgs(memo.ID, args)]]
             /\ UNCHANGED <<memos, relations, nextID, last>>

\* s.store.UpdateMemo(ctx, update)
UpdateWrite(s, storeOK) ==
  /\ last = NoResult
  /\ calls[s].pc = "update_write"
  /\ IF ~storeOK
     THEN /\ Finish(s, NewToolResultError(calls[s].call, ErrUpdateMemo))
          /\ UNCHANGED <<memos, relations, nextID>>
     ELSE /\ memos' = StoreUpdateMemo(memos, calls[s].update)
          /\ calls' = [calls EXCEPT ![s].pc = "update_refetch"]
          /\ UNCHANGED <<relations, nextID, last>>

\* The re-fetch by row id and the serialisation of what it returned.
UpdateRefetch(s, storeOK) ==
  LET updated == StoreGetMemo(memos, [FindMemo EXCEPT !.ID = calls[s].update.ID])
  IN /\ last = NoResult
     /\ calls[s].pc = "update_refetch"
     /\ Finish(s, IF ~storeOK THEN NewToolResultError(calls[s].call, ErrFetchUpdated)
                  ELSE IF updated = Nil THEN Panicked(calls[s].call)
                  ELSE NewToolResultText(calls[s].call, storeMemoToJSON(updated), Nil))
     /\ UNCHANGED <<memos, relations, nextID>>

(* delete_memo *)

DeleteBegin(s, userID, name, storeOK) ==
  LET call == Call("delete_memo", userID, [name |-> name])
      p == parseMemoUID(name)
      memo == StoreGetMemo(memos, [FindMemo EXCEPT !.UID = p.uid])
  IN /\ last = NoResult
     /\ calls[s] = Idle
     /\ IF ~extractUserID(userID) THEN Fail(call, ErrUnauthenticated)
        ELSE IF ~p.ok THEN Fail(call, ErrMemoName)
        ELSE IF ~storeOK THEN Fail(call, ErrGetMemo)
        ELSE IF memo = Nil THEN Fail(call, ErrNotFound)
        ELSE IF ~isOwner(memo, userID) THEN Fail(call, ErrDenied)
        ELSE /\ calls' = [calls EXCEPT ![s] =
                  [pc |-> "delete_write", call |-> call, memoID |-> memo.ID]]
             /\ UNCHANGED <<memos, relations, nextID, last>>

\* s.store.DeleteMemo(ctx, &store.DeleteMemo{ID: memo.ID})
DeleteWrite(s, storeOK) ==
  /\ last = NoResult
  /\ calls[s].pc = "delete_write"
  /\ IF ~storeOK
     THEN /\ Finish(s, NewToolResultError(calls[s].call, ErrDeleteMemo))
          /\ UNCHANGED <<memos, relations, nextID>>
     ELSE /\ memos' = StoreDeleteMemo(memos, calls[s].memoID)
          /\ Finish(s, NewToolResultText(calls[s].call, [deleted |-> TRUE], Nil))
          /\ UNCHANGED <<relations, nextID>>

(* create_memo_comment *)

createCommentDraft(userID, content, parent, uid) ==
  [UID |-> uid, CreatorID |-> userID, Content |-> content,
   Visibility |-> parent.Visibility, Payload |-> buildPayload(content),
   ParentUID |-> parent.UID]

commentRelation_Reversed(comment, parent) ==
  [MemoID |-> parent.ID, RelatedMemoID |-> comment.ID,
   Type |-> MemoRelationComment]
\* The relation the handler upserts: comment -> parent.
commentRelation(comment, parent) ==
  [MemoID |-> comment.ID, RelatedMemoID |-> parent.ID,
   Type |-> MemoRelationComment]

\* What the handler reads of the fetched parent after the access check.
parentLocals(parent) ==
  [ID |-> parent.ID, UID |-> parent.UID, Visibility |-> parent.Visibility]

\* Up to the access check on the parent.
CommentBegin(s, userID, name, content, storeOK) ==
  LET call == Call("create_memo_comment", userID,
                   [name |-> name, content |-> content])
      p == parseMemoUID(name)
      parent == StoreGetMemo(memos, [FindMemo EXCEPT !.UID = p.uid])
  IN /\ last = NoResult
     /\ calls[s] = Idle
     /\ IF ~extractUserID(userID) THEN Fail(call, ErrUnauthenticated)
        ELSE IF ~p.ok THEN Fail(call, ErrMemoName)
        ELSE IF content = <<>> THEN Fail(call, ErrContentRequired)
        ELSE IF ~storeOK THEN Fail(call, ErrGetMemo)
        ELSE IF parent = Nil THEN Fail(call, ErrNotFound)
        ELSE IF ~checkMemoAccess(parent, userID) THEN Fail(call, ErrDenied)
        ELSE /\ calls' = [calls EXCEPT ![s] =
                  [pc |-> "comment_create", call |-> call,
                   parent |-> parentLocals(parent)]]
             /\ UNCHANGED <<memos, relations, nextID, last>>

\* s.store.CreateMemo with the visibility of the parent as it was fetched.
CommentCreate(s, storeOK) ==
  LET c == calls[s]
      table == StoreCreateMemo(memos, nextID,
                 createCommentDraft(c.call.caller, c.call.req.content, c.parent,
                                    UIDOf(nextID)))
  IN /\ last = NoResult
     /\ c.pc = "comment_create"
     /\ IF ~storeOK
        THEN /\ Finish(s, NewToolResultError(c.call, ErrCreateComment))
             /\ UNCHANGED <<memos, relations, nextID>>
        ELSE /\ nextID <= MaxMemos
             /\ memos' = table
             /\ nextID' = nextID + 1
             /\ calls' = [calls EXCEPT ![s] =
                  [pc |-> "comment_link", call |-> c.call, parent |-> c.parent,
                   comment |-> table[nextID]]]
             /\ UNCHANGED <<relations, last>>

linkFailureMemos_Compensate(table, comment) == StoreDeleteMemo(table, comment.ID)
\* The memo table after UpsertMemoRelation failed: the handler only returns.
linkFailureMemos(table, comment) == table

\* s.store.UpsertMemoRelation, then the answer.
CommentLink(s, storeOK) ==
  LET c == calls[s]
  IN /\ last = NoResult
     /\ c.pc = "comment_link"
     /\ IF ~storeOK
        THEN /\ memos' = linkFailureMemos(memos, c.comment)
             /\ Finish(s, NewToolResultError(c.call, ErrLinkComment))
             /\ UNCHANGED <<relations, nextID>>
        ELSE /\ relations' = StoreUpsertMemoRelation(relations,
                                commentRelation(c.comment, c.parent))
             /\ Finish(s, NewToolResultText(c.call, storeMemoToJSON(c.comment), Nil))
             /\ UNCHANGED <<memos, nextID>>

(* list_memo_comments *)

\* Up to the access check on the parent.
ListCommentsBegin(s, userID, name, storeOK) ==
  LET call == Call("list_memo_comments", userID, [name |-> name])
      p == parseMemoUID(name)
      parent == StoreGetMemo(memos, [FindMemo EXCEPT !.UID = p.uid])
  IN /\ last = NoResult
     /\ calls[s] = Idle
     /\ IF ~p.ok THEN Fail(call, ErrMemoName)
        ELSE IF ~storeOK THEN Fail(call, ErrGetMemo)
        ELSE IF parent = Nil THEN Fail(call, ErrNotFound)
        ELSE IF ~checkMemoAccess(parent, userID) THEN Fail(call, ErrDenied)
        ELSE /\ calls' = [calls EXCEPT ![s] =
                  [pc |-> "comments_relations", call |-> call,
                   parentID |-> parent.ID]]
             /\ UNCHANGED <<memos, relations, nextID, last>>

listCommentRelations_ByParentUID(table, rels, parentID) ==
  {[MemoID |-> id, RelatedMemoID |-> parentID, Type |-> MemoRelationComment] :
     id \in {i \in DOMAIN table : table[i].ParentUID = UIDOf(parentID)}}
\* The relations the handler asks for: type COMMENT, related memo = parent.
listCommentRelations(table, rels, parentID) ==
  StoreListMemoRelations(rels, parentID, MemoRelationComment)

\* s.store.ListMemoRelations; an empty list is answered at once.
ListCommentsRelations(s, storeOK) ==
  LET c == calls[s]
      rels == listCommentRelations(memos, relations, c.parentID)
      commentIDs == {r.MemoID : r \in rels}
  IN /\ last = NoResult
     /\ c.pc = "comments_relations"
     /\ IF ~storeOK THEN Finish(s, NewToolResultError(c.call, ErrListRelations))
        ELSE IF rels = {} THEN Finish(s, NewToolResultText(c.call, <<>>, Nil))
        ELSE /\ calls' = [calls EXCEPT ![s] =
                  [pc |-> "comments_memos", call |-> c.call,
                   commentIDs |-> commentIDs]]
             /\ last' = last
     /\ UNCHANGED <<memos, relations, nextID>>

readableComments_All(rows, userID) == rows
\* The comments the caller may read, among the rows just listed.
readableComments(rows, userID) ==
  SelectSeq(rows, LAMBDA m : checkMemoAccess(m, userID))

\* s.store.ListMemos by id list, the per-comment check, and the answer.
ListCommentsMemos(s, storeOK) ==
  LET c == calls[s]
      find == [FindMemo EXCEPT !.UseIDList = TRUE, !.IDList = c.commentIDs]
      rows == StoreListMemos(memos, find)
  IN /\ last = NoResult
     /\ c.pc = "comments_memos"
     /\ Finish(s, IF ~storeOK THEN NewToolResultError(c.call, ErrListComments)
                  ELSE NewToolResultText(c.call,
                         MapJSON(readableComments(rows, c.call.caller)), find))
     /\ UNCHANGED <<memos, relations, nextID>>

----------------------------------------------------------------------------
(* Inputs *)

ContentTagged == <<"h", "i", " ", "#", "a">>
ContentPlain == <<"x">>
ContentOther == <<"#", "b">>
ContentBoth == <<"#", "a", " ", "#", "b">>

BadNames == {[prefix |-> "memos/", rest |-> EmptyUID],
             [prefix |-> "notes/", rest |-> UIDOf(1)]}

PageSizeArgs == {NoArgs} \cup {("page_size" :> v) : v \in {-1, 0, 1, 101}}
PageArgs == {NoArgs} \cup {("page" :> v) : v \in {-1, 1}}
StateArgs == {NoArgs} \cup {("state" :> v) : v \in {"", Archived, "DELETED"}}

\* Caller-supplied filter expressions:  creator_id == 1 ,
\* visibility in ["PRIVATE"] , and  tags.exists(t, t == "a") .
FilterArgs ==
  {("filter" :> f) :
     f \in {[kind |-> "creator_or_visibility", creator |-> 1, visibilities |-> {}],
            [kind |-> "creator_or_visibility", creator |-> Anonymous,
             visibilities |-> {Private}],
            [kind |-> "tag_exists", tag |-> <<"a">>]}}

PolicyListArgs ==
  {a @@ b @@ c : a \in PageSizeArgs, b \in PageArgs,
                 c \in {NoArgs, ("state" :> Archived)}}
    \cup StateArgs
    \cup {f @@ c : f \in FilterArgs, c \in StateArgs}

----------------------------------------------------------------------------
(* The policy specification: the read tools over a store whose rows were    *)
(* written by any writer of the shared table, so a row's visibility column  *)
(* may hold a value outside the three known ones.                           *)

SeedVisibilities == KnownVisibilities \cup {"UNLISTED"}
SeedShapes ==
  [Visibility : SeedVisibilities, CreatorID : Users,
   RowStatus : {Normal, Archived}, Comment : BOOLEAN]

\* User 1 writes '#b', user 2 writes '#a #b'.
SeedContent(shape) == IF shape.CreatorID = 1 THEN ContentOther ELSE ContentBoth

SeedRow(id, shape) ==
  [ID |-> id, UID |-> UIDOf(id), CreatorID |-> shape.CreatorID,
   Content |-> SeedContent(shape), Visibility |-> shape.Visibility,
   RowStatus |-> shape.RowStatus, Pinned |-> FALSE,
   Payload |-> buildPayload(SeedContent(shape)),
   ParentUID |-> IF shape.Comment THEN UIDOf(1) ELSE EmptyUID]

\* The newest row may be a comment on the oldest one.
PolicyInit ==
  /\ \E n \in 0..MaxSeed :
       \E shapes \in [1..n -> SeedShapes] :
         /\ \A i \in 1..n : shapes[i].Comment => (i = n /\ i > 1)
         /\ memos = [i \in 1..n |-> SeedRow(i, shapes[i])]
         /\ nextID = n + 1
         /\ relations = {commentRelation(memos[i], memos[1]) :
                           i \in {k \in 1..n : shapes[k].Comment}}
  /\ calls = [s \in Slots |-> Idle]
  /\ last = NoResult

PolicyGetMemo ==
  \E userID \in Callers, storeOK \in BOOLEAN :
    \E name \in BadNames \cup {MemoName(UIDOf(i)) : i \in 1..MaxSeed} :
      handleGetMemo(userID, name, storeOK)

\* The store fails whatever the arguments are: one failing call per caller.
PolicyListMemos ==
  \E userID \in Callers, storeOK \in BOOLEAN, args \in PolicyListArgs :
    /\ ~storeOK => args = NoArgs
    /\ handleListMemos(userID, args, storeOK)

\* search_memos declares query only; a state argument sent along is ignored.
SearchArgs ==
  {NoArgs} \cup {("query" :> q) @@ x :
                   q \in {<<>>, <<"a">>, <<"z">>},
                   x \in {NoArgs, ("state" :> Archived)}}

PolicySearchMemos ==
  \E userID \in Callers, storeOK \in BOOLEAN, args \in SearchArgs :
    /\ ~storeOK => args = ("query" :> <<"a">>)
    /\ handleSearchMemos(userID, args, storeOK)

PolicyListTags ==
  \E userID \in Callers, storeOK \in BOOLEAN : handleListTags(userID, storeOK)

BadURIs == {MemoURI(EmptyUID), [prefix |-> "memos/", rest |-> UIDOf(1)]}

PolicyReadMemoResource ==
  \E userID \in Callers, storeOK \in BOOLEAN :
    \E uri \in BadURIs \cup {MemoURI(UIDOf(i)) : i \in 1..MaxSeed} :
      handleReadMemoResource(userID, uri, storeOK)

PolicyNext ==
  \/ PolicyGetMemo
  \/ PolicyReadMemoResource
  \/ PolicyListMemos
  \/ PolicySearchMemos
  \/ PolicyListTags
  \/ Deliver

SpecPolicy == PolicyInit /\ [][PolicyNext]_vars

----------------------------------------------------------------------------
(* The tool specification: the store starts empty and every row in it is    *)
(* written by the tools. Two sessions run handlers whose steps interleave   *)
(* at store calls: session s1 comments and deletes, session s2 updates and  *)
(* lists comments. Callers name memos whose uid has been issued.            *)

IssuedNames == {MemoName(UIDOf(i)) : i \in 1..(nextID - 1)}

CreateArgs ==
  {("content" :> ContentTagged) @@ v :
     v \in {NoArgs} \cup {("visibility" :> x) : x \in {Public}}}

VisibilityArgs == {("visibility" :> x) : x \in {Public, Private}}

Init ==
  /\ memos = <<>>
  /\ relations = {}
  /\ nextID = 1
  /\ calls = [s \in Slots |-> Idle]
  /\ last = NoResult

CreateMemo ==
  \E userID \in Callers, args \in CreateArgs :
    handleCreateMemo(userID, args, TRUE)

UpdateMemo ==
  \/ \E userID \in Callers, name \in IssuedNames, args \in VisibilityArgs :
       UpdateBegin("s2", userID, name, args, TRUE)
  \/ \E storeOK \in BOOLEAN : UpdateWrite("s2", storeOK)
  \/ \E storeOK \in BOOLEAN : UpdateRefetch("s2", storeOK)

DeleteMemo ==
  \/ \E userID \in Callers, name \in IssuedNames : DeleteBegin("s1", userID, name, TRUE)
  \/ \E storeOK \in BOOLEAN : DeleteWrite("s1", storeOK)

CreateMemoComment ==
  \/ \E userID \in Callers, name \in IssuedNames, content \in {ContentPlain, <<>>} :
       CommentBegin("s1", userID, name, content, TRUE)
  \/ \E storeOK \in BOOLEAN : CommentCreate("s1", storeOK)
  \/ \E storeOK \in BOOLEAN : CommentLink("s1", storeOK)

ListMemoComments ==
  \/ \E userID \in Callers, name \in IssuedNames :
       ListCommentsBegin("s2", userID, name, TRUE)
  \/ \E storeOK \in BOOLEAN : ListCommentsRelations("s2", storeOK)
  \/ \E storeOK \in BOOLEAN : ListCommentsMemos("s2", storeOK)

Next ==
  \/ CreateMemo
  \/ UpdateMemo
  \/ DeleteMemo
  \/ CreateMemoComment
  \/ ListMemoComments
  \/ Deliver

Spec == Init /\ [][Next]_vars

----------------------------------------------------------------------------
(* The reader specification: the tool specification with every read        *)
(* operation added. Any caller may read, at any point between the store     *)
(* calls of the write handlers in flight, by get_memo, list_memos (also     *)
(* with a filter asking for PRIVATE rows), search_memos, the memo resource  *)
(* and list_memo_comments.                                                  *)

ReaderListArgs ==
  {NoArgs,
   ("filter" :> [kind |-> "creator_or_visibility", creator |-> Anonymous,
                 visibilities |-> {Private}])}

ReaderGetMemo ==
  \E userID \in Callers, name \in IssuedNames : handleGetMemo(userID, name, TRUE)

ReaderListMemos ==
  \E userID \in Callers, args \in ReaderListArgs :
    handleListMemos(userID, args, TRUE)

ReaderSearchMemos ==
  \E userID \in Callers :
    handleSearchMemos(userID, ("query" :> <<"h">>), TRUE)

ReaderReadMemoResource ==
  \E userID \in Callers, i \in 1..(nextID - 1) :
    handleReadMemoResource(userID, MemoURI(UIDOf(i)), TRUE)

ReaderNext ==
  \/ CreateMemo
  \/ UpdateMemo
  \/ DeleteMemo
  \/ CreateMemoComment
  \/ ListMemoComments
  \/ ReaderGetMemo
  \/ ReaderListMemos
  \/ ReaderSearchMemos
  \/ ReaderReadMemoResource
  \/ Deliver

SpecReader == Init /\ [][ReaderNext]_vars

----------------------------------------------------------------------------
(* The owner specification: one session, one memo created by user 1 with    *)
(* create_memo, and update_memo and delete_memo with every combination of   *)
(* the optional arguments (absent, empty, valid, invalid).                  *)

OwnedName == MemoName(UIDOf(1))

ContentArgs ==
  {NoArgs} \cup {("content" :> v) : v \in {<<>>, ContentTagged, ContentPlain, ContentOther}}
VisibilityValueArgs ==
  {NoArgs} \cup {("visibility" :> v) : v \in {"", Public, Private, "UNLISTED"}}
StateValueArgs ==
  {NoArgs} \cup {("state" :> v) : v \in {"", Normal, Archived, "DELETED"}}
PinnedArgs == {NoArgs} \cup {("pinned" :> v) : v \in BOOLEAN}
UpdateArgs ==
  {a @@ b @@ c @@ d : a \in ContentArgs, b \in VisibilityValueArgs,
                      c \in StateValueArgs, d \in PinnedArgs}

\* The owner's calls carry any arguments; other callers and malformed names
\* are refused before the arguments are read.
UpdateInputs ==
  ({1} \X {OwnedName} \X UpdateArgs)
    \cup (Callers \X ({OwnedName} \cup BadNames)
            \X {NoArgs, ("pinned" :> TRUE), ("visibility" :> Public)})

\* The payload after the markdown analysis that runs outside this layer has
\* rebuilt it from the content: the tags again, and the content-shape flags.
RebuildPayload(row, flags) ==
  [row EXCEPT !.Payload = [Tags |-> extractTags(row.Content), Property |-> flags]]

OwnerInit ==
  /\ \E content \in {ContentTagged, ContentPlain}, visibility \in KnownVisibilities,
        analysed \in BOOLEAN :
       LET table == StoreCreateMemo(<<>>, 1,
                      createMemoDraft(1, content, visibility, UIDOf(1)))
       IN memos = IF analysed
                  THEN <<RebuildPayload(table[1], {"has_link"})>>
                  ELSE table
  /\ relations = {}
  /\ nextID = 2
  /\ calls = [s \in Slots |-> Idle]
  /\ last = NoResult

OwnerUpdateMemo ==
  \E storeOK \in BOOLEAN :
    \/ \E in \in UpdateInputs : UpdateBegin("s1", in[1], in[2], in[3], storeOK)
    \/ UpdateWrite("s1", storeOK)
    \/ UpdateRefetch("s1", storeOK)

OwnerDeleteMemo ==
  \E storeOK \in BOOLEAN :
    \/ \E userID \in Callers, name \in {OwnedName} \cup BadNames :
         DeleteBegin("s1", userID, name, storeOK)
    \/ DeleteWrite("s1", storeOK)

OwnerNext == OwnerUpdateMemo \/ OwnerDeleteMemo \/ Deliver

SpecOwner == OwnerInit /\ [][OwnerNext]_vars

----------------------------------------------------------------------------
(* The create specification: one create_memo on an empty store, with every  *)
(* text of up to MaxLen characters over a small alphabet as content, then    *)
(* get_memo calls on the memo it returned.                                   *)

Alphabet == {"a", "B", "1", " ", "#"}
Texts == UNION {[1..n -> Alphabet] : n \in 0..MaxLen}

\* hello #world, #Go-lang #a1
ExampleText ==
  <<"h", "e", "l", "l", "o", " ", "#", 
   "w", "o", "r", "l", "d", ",", " ", "#", 
   "G", "o", "-", "l", "a", "n", "g", " ", "#", "a", "1">>
\* buy milk #groceries
GroceriesText ==
  <<"b", "u", "y", " ", "m", "i", "l", "k", " ", "#", "g", "r", "o", "c", "e", "r", "i", "e", "s">>

CreateInputs ==
  ({1} \X {("content" :> t) : t \in Texts})
    \cup (Callers \X {("content" :> t) @@ v :
                        t \in {ExampleText, GroceriesText},
                        v \in {NoArgs, ("visibility" :> Public),
                               ("visibility" :> "UNLISTED")}})

CreateOnce ==
  /\ nextID = 1
  /\ \E in \in CreateInputs, storeOK \in BOOLEAN :
       handleCreateMemo(in[1], in[2], storeOK)

GetCreated ==
  \E userID \in Callers, name \in IssuedNames \cup BadNames, storeOK \in BOOLEAN :
    handleGetMemo(userID, name, storeOK)

CreateNext == CreateOnce \/ GetCreated \/ Deliver

SpecCreate == Init /\ [][CreateNext]_vars

----------------------------------------------------------------------------
(* Claims *)

RowNamed(name) ==
  IF parseMemoUID(name).ok
  THEN StoreGetMemo(memos, [FindMemo EXCEPT !.UID = parseMemoUID(name).uid])
  ELSE Nil

CanRead(m, c) ==
  \/ m.Visibility = Public
  \/ m.Visibility = Protected /\ c # Anonymous
  \/ m.Visibility = Private /\ c = m.CreatorID
  \/ m.Visibility \notin {Public, Protected, Private}

\* C1: for every memo of the store and every caller (0 = anonymous),
\* checkMemoAccess permits the read iff the memo is PUBLIC, or PROTECTED and
\* the caller is not anonymous, or PRIVATE and the caller is its creator, or
\* its visibility is none of the three known values; a get_memo that reached
\* the check answers accordingly.
C1_CheckMemoAccess ==
  /\ \A id \in DOMAIN memos, c \in Callers :
       checkMemoAccess(memos[id], c) <=> CanRead(memos[id], c)
  /\ (last.op = "get_memo" /\ last.kind = "text") =>
       /\ RowNamed(last.req.name) # Nil
       /\ CanRead(RowNamed(last.req.name), last.caller)
  /\ (last.op = "get_memo" /\ last.err = ErrDenied) =>
       /\ RowNamed(last.req.name) # Nil
       /\ ~CanRead(RowNamed(last.req.name), last.caller)

C1_Witness ==
  /\ last.op = "get_memo" /\ last.kind = "text"
  /\ last.caller = Anonymous
  /\ last.body.visibility \notin KnownVisibilities

\* C2: for every caller and every memo of the store (any visibility value,
\* any creator), the memo satisfies the restriction applyVisibilityFilter
\* installs for the caller iff checkMemoAccess permits the caller to read it.
C2_FilterAgreesWithAccess ==
  \A id \in DOMAIN memos, c \in Callers :
    MatchesFind(applyVisibilityFilter(FindMemo, c), memos[id])
      <=> checkMemoAccess(memos[id], c)

\* The rows of the store that satisfy a query, whatever its window.
MatchingRows(find) == {id \in DOMAIN memos : MatchesFind(find, memos[id])}

\* C4: a list_memos answer for page size n and page p holds at most n memos;
\* has_more is true iff more than n matching rows lie at offset p*n; and when
\* has_more is true the answer holds exactly n memos.
C4_Pagination ==
  (last.op = "list_memos" /\ last.kind = "text") =>
    LET n == listPageSize(last.req.args)
        p == listPage(last.req.args)
        atOffset == Cardinality(MatchingRows(last.find)) - p * n
    IN /\ Len(last.body.memos) <= n
       /\ last.body.has_more <=> atOffset > n
       /\ last.body.has_more => Len(last.body.memos) = n

C4_Witness ==
  /\ last.op = "list_memos" /\ last.kind = "text"
  /\ last.body.has_more
  /\ Len(last.body.memos) = 1

\* An update_memo or delete_memo result for an existing memo (the lookup
\* found it) whose caller is not the memo's creator.
NonCreatorResult ==
  /\ last.op \in {"update_memo", "delete_memo"}
  /\ last.err # ErrGetMemo
  /\ RowNamed(last.req.name) # Nil
  /\ last.caller # RowNamed(last.req.name).CreatorID

\* C3 as stated: every caller who is not the creator, the anonymous one
\* included, receives permission denied from update_memo and delete_memo on
\* an existing memo.
C3_NonCreatorDenied == NonCreatorResult => last.err = ErrDenied

\* C3, amended: a caller who is not the creator is always refused by
\* update_memo and delete_memo on an existing memo, whatever its visibility:
\* an authenticated caller with permission denied, the anonymous caller with
\* the unauthenticated error.
C3_NonCreatorRefused ==
  NonCreatorResult =>
    /\ last.kind = "error"
    /\ last.err = IF last.caller = Anonymous THEN ErrUnauthenticated ELSE ErrDenied

C3_Witness ==
  /\ NonCreatorResult
  /\ last.op = "delete_memo"
  /\ last.err = ErrDenied
  /\ RowNamed(last.req.name).Visibility = Public

\* The step of slot s that creates a comment row.
CommentCreated(s) ==
  calls[s].pc = "comment_create" /\ calls'[s].pc = "comment_link"

\* C5: a comment memo stored by create_memo_comment has the visibility its
\* parent has in the store at the moment the comment row is created, also
\* when update_memo calls on the parent interleave.
C5_CommentVisibilityAtCreation ==
  [][\A s \in Slots : CommentCreated(s) =>
       \A id \in DOMAIN memos' \ DOMAIN memos :
         \A pid \in DOMAIN memos :
           memos[pid].UID = memos'[id].ParentUID =>
             memos'[id].Visibility = memos[pid].Visibility]_vars

\* The comment relations whose source is the memo with this uid.
CommentRelationsOf(rels, uid) ==
  {r \in rels : UIDOf(r.MemoID) = uid /\ r.Type = MemoRelationComment}

\* C6: when create_memo_comment returns success, exactly one comment relation
\* has the new comment as its source and it points to the parent named in the
\* call; that relation is the only one the call created.
C6_OneCommentRelation ==
  [][
      /\ (last = NoResult /\ last'.op = "create_memo_comment" /\ last'.kind = "text") =>
          LET mine == CommentRelationsOf(relations', last'.body.name.rest)
          IN /\ Cardinality(mine) = 1
             /\ \A r \in mine :
                  UIDOf(r.RelatedMemoID) = parseMemoUID(last'.req.name).uid
             /\ relations' \ relations = mine
             /\ relations \subseteq relations'
      /\ (\E s \in Slots : calls'[s].pc \in {"comment_create", "comment_link"}) =>
           relations' = relations]_vars

C6_Witness ==
  /\ last.op = "create_memo_comment" /\ last.kind = "text"
  /\ Cardinality(relations) = 1

\* Comment memos with no comment relation and no handler about to link them.
Orphans ==
  {id \in DOMAIN memos :
     /\ memos[id].ParentUID # EmptyUID
     /\ CommentRelationsOf(relations, memos[id].UID) = {}
     /\ \A s \in Slots :
          calls[s].pc = "comment_link" => calls[s].comment.ID # id}

\* C7: when UpsertMemoRelation fails after CreateMemo succeeded the call
\* returns an error, the step deletes nothing and links nothing, so the
\* comment memo stays in the store with its parent reference and without a
\* relation; no later step links it, and list_memo_comments never returns it.
C7_OrphanedComment ==
  [][
      /\ (last = NoResult /\ last'.err = ErrLinkComment) =>
          /\ last'.kind = "error"
          /\ memos' = memos
          /\ relations' = relations
          /\ \A s \in Slots :
               (/\ calls[s].pc = "comment_link"
                /\ calls'[s] = Idle
                /\ calls[s].comment.ID \in DOMAIN memos) =>
                 calls[s].comment.ID \in Orphans'
      /\ \A id \in Orphans : id \in DOMAIN memos' => id \in Orphans'
      /\ (last'.op = "list_memo_comments" /\ last'.kind = "text") =>
           \A id \in Orphans' :
             \A i \in 1..Len(last'.body) :
               last'.body[i].name # MemoName(memos'[id].UID)]_vars

C7_Witness ==
  /\ last.err = ErrLinkComment
  /\ \E id \in Orphans : memos[id].ParentUID = UIDOf(1)
  /\ relations = {}

----------------------------------------------------------------------------
(* update_memo *)

\* The step of slot s in which update_memo writes to the store.
UpdateWritten(s) ==
  calls[s].pc = "update_write" /\ calls'[s].pc = "update_refetch"

ContentSupplied(args) == GetArg(args, "content", <<>>) # <<>>
VisibilitySupplied(args) == GetArg(args, "visibility", "") # ""
StateSupplied(args) == GetArg(args, "state", "") # ""
PinnedSupplied(args) == "pinned" \in DOMAIN args

\* The memo table after a whole update_memo call that runs alone on table.
updateMemoEffect(table, userID, name, args) ==
  LET p == parseMemoUID(name)
      memo == StoreGetMemo(table, [FindMemo EXCEPT !.UID = p.uid])
  IN IF ~extractUserID(userID) \/ ~p.ok THEN table
     ELSE IF memo = Nil THEN table
     ELSE IF ~isOwner(memo, userID) \/ updateArgsError(args) # "" THEN table
     ELSE StoreUpdateMemo(table, updateFromArgs(memo.ID, args))

\* C8: an update_memo by the owner that supplies no optional field leaves the
\* memo as it was; and running the same update_memo again, right after it
\* succeeded, leaves the memo as the first call left it.
C8_UpdateIdempotent ==
  [][\A s \in Slots : UpdateWritten(s) =>
       LET call == calls[s].call
           args == call.req.args
       IN /\ (~ContentSupplied(args) /\ ~VisibilitySupplied(args)
                /\ ~StateSupplied(args) /\ ~PinnedSupplied(args)) => memos' = memos
          /\ updateMemoEffect(memos', call.caller, call.req.name, args) = memos']_vars

C8_Witness ==
  /\ last.op = "update_memo" /\ last.kind = "text"
  /\ last.req.args = NoArgs
  /\ last.body.pinned
  /\ last.body.state = Archived

\* C9: the store write of update_memo changes exactly the supplied fields:
\* content, visibility and state when the argument is a non-empty string,
\* pinned when the key is present (so pinned=false unpins); every other
\* field, and the tags when no content is supplied, keep their value.
C9_UpdateFrame ==
  [][\A s \in Slots : UpdateWritten(s) =>
       LET args == calls[s].call.req.args
           id == calls[s].update.ID
       IN /\ DOMAIN memos' = DOMAIN memos
          /\ \A other \in DOMAIN memos \ {id} : memos'[other] = memos[other]
          /\ id \in DOMAIN memos =>
               /\ memos'[id].Content =
                    IF ContentSupplied(args) THEN args["content"]
                    ELSE memos[id].Content
               /\ memos'[id].Visibility =
                    IF VisibilitySupplied(args) THEN args["visibility"]
                    ELSE memos[id].Visibility
               /\ memos'[id].RowStatus =
                    IF StateSupplied(args) THEN args["state"]
                    ELSE memos[id].RowStatus
               /\ memos'[id].Pinned =
                    IF PinnedSupplied(args) THEN args["pinned"]
                    ELSE memos[id].Pinned
               /\ ~ContentSupplied(args) => memos'[id].Payload = memos[id].Payload
               /\ memos'[id].ID = memos[id].ID
               /\ memos'[id].UID = memos[id].UID
               /\ memos'[id].CreatorID = memos[id].CreatorID
               /\ memos'[id].ParentUID = memos[id].ParentUID]_vars

C9_Witness ==
  /\ last.op = "update_memo" /\ last.kind = "text"
  /\ "pinned" \in DOMAIN last.req.args /\ ~last.req.args["pinned"]
  /\ "content" \in DOMAIN last.req.args /\ last.req.args["content"] = <<>>
  /\ ~last.body.pinned
  /\ last.body.content # <<>>
  /\ last.body.state = Archived

\* C10: after a successful update_memo that supplies non-empty content c the
\* memo's tags are extractTags(c), whatever tags it had before.
C10_TagsFollowContent ==
  (last.op = "update_memo" /\ last.kind = "text"
     /\ ContentSupplied(last.req.args)) =>
    last.body.tags = extractTags(last.req.args["content"])

\* The content-shape flags that are true in a row's payload.
FlagsOf(row) == IF row.Payload = Nil THEN {} ELSE row.Payload.Property

\* C11: the store write of update_memo leaves the four content-shape flags
\* of the memo's payload as they were, also when it supplies new content.
C11_FlagsUnchanged ==
  [][\A s \in Slots : UpdateWritten(s) =>
       LET id == calls[s].update.ID
       IN id \in DOMAIN memos => FlagsOf(memos'[id]) = FlagsOf(memos[id])]_vars

----------------------------------------------------------------------------
(* extractTags *)

\* The positions of a '#' that opens a tag: at the start of the text or right
\* after whitespace, and followed by a letter.
TagStarts(s) ==
  {i \in 1..Len(s) :
     /\ s[i] = "#"
     /\ (i = 1 \/ s[i - 1] \in Whitespace)
     /\ i < Len(s) /\ s[i + 1] \in Letters}

\* The tag opened at i: the maximal run after the '#' of characters that are
\* neither whitespace nor '#'.
TagAt(s, i) ==
  LET ends == {k \in (i + 1)..Len(s) :
                 /\ \A j \in (i + 1)..k : s[j] \notin Whitespace /\ s[j] # "#"
                 /\ (k = Len(s) \/ s[k + 1] \in Whitespace \/ s[k + 1] = "#")}
  IN SubSeq(s, i + 1, CHOOSE k \in ends : TRUE)

FirstStart(s, tag) ==
  CHOOSE i \in TagStarts(s) :
    /\ TagAt(s, i) = tag
    /\ \A j \in TagStarts(s) : TagAt(s, j) = tag => i <= j

\* tags is what the rule yields for s: every tag, once, by first appearance.
TagsByRule(s, tags) ==
  /\ SeqRange(tags) = {TagAt(s, i) : i \in TagStarts(s)}
  /\ \A i, j \in 1..Len(tags) : i < j =>
       /\ tags[i] # tags[j]
       /\ FirstStart(s, tags[i]) < FirstStart(s, tags[j])

\* A create_memo that stored a memo.
Created == last.op = "create_memo" /\ last.kind = "text"

\* C12: the tags create_memo derives with extractTags are exactly those of the
\* rule: a '#' at the start of the text or after whitespace, then a letter,
\* then the maximal run without whitespace or '#'; in order of first
\* appearance, without duplicates, case-sensitive.
C12_ExtractTagsRule ==
  Created =>
    /\ last.body.tags = extractTags(last.req.args["content"])
    /\ TagsByRule(last.req.args["content"], last.body.tags)

C12_Witness ==
  /\ Created
  /\ last.req.args["content"] = <<"#", "a", " ", "#", "a">>
  /\ last.body.tags = << <<"a">> >>

\* C13 as stated: extractTags of 'hello #world, #Go-lang #a1' is
\* ["world", "Go-lang", "a1"].
C13_ExampleAsStated ==
  (Created /\ last.req.args["content"] = ExampleText) =>
    last.body.tags = << <<"w","o","r","l","d">>,
                        <<"G","o","-","l","a","n","g">>, <<"a","1">> >>

\* C13, amended: extractTags of 'hello #world, #Go-lang #a1' is
\* ["world,", "Go-lang", "a1"]: the comma is neither whitespace nor '#', so
\* it belongs to the first tag.
C13_ExampleTags ==
  (Created /\ last.req.args["content"] = ExampleText) =>
    last.body.tags = << <<"w","o","r","l","d",",">>,
                        <<"G","o","-","l","a","n","g">>, <<"a","1">> >>

C13_Witness ==
  /\ Created
  /\ last.req.args["content"] = ExampleText
  /\ Len(last.body.tags) = 3

----------------------------------------------------------------------------
(* create_memo, then get_memo *)

\* C14: create_memo by an authenticated caller without a visibility argument
\* stores a memo with the caller as creator, visibility PRIVATE and the tags
\* of extractTags(content); a following get_memo by the creator returns the
\* memo with those tags and that visibility ('buy milk #groceries': tags
\* ["groceries"]).
C14_CreateThenGet ==
  /\ (Created /\ "visibility" \notin DOMAIN last.req.args) =>
       LET row == RowNamed(last.body.name)
       IN /\ row # Nil
          /\ last.caller # Anonymous
          /\ row.CreatorID = last.caller
          /\ row.Content = last.req.args["content"]
          /\ row.Visibility = Private
          /\ storeMemoToJSON(row).tags = extractTags(row.Content)
          /\ last.body = storeMemoToJSON(row)
  /\ (/\ last.op = "get_memo"
      /\ last.err # ErrGetMemo
      /\ RowNamed(last.req.name) # Nil
      /\ RowNamed(last.req.name).CreatorID = last.caller) =>
       LET row == RowNamed(last.req.name)
       IN /\ last.kind = "text"
          /\ last.body.name = last.req.name
          /\ last.body.creator = last.caller
          /\ last.body.content = row.Content
          /\ last.body.visibility = row.Visibility
          /\ last.body.tags = extractTags(row.Content)
          /\ row.Content = GroceriesText =>
               last.body.tags = << <<"g","r","o","c","e","r","i","e","s">> >>

C14_Witness ==
  /\ last.op = "get_memo" /\ last.kind = "text"
  /\ last.caller = 2
  /\ last.body.creator = 2
  /\ last.body.content = GroceriesText
  /\ last.body.visibility = Private
  /\ last.body.tags = << <<"g","r","o","c","e","r","i","e","s">> >>

----------------------------------------------------------------------------
(* Anonymous listing *)

\* A list_memos answer to the anonymous caller who left state at its default.
AnonymousListed ==
  /\ last.op = "list_memos" /\ last.kind = "text"
  /\ last.caller = Anonymous
  /\ "state" \notin DOMAIN last.req.args

\* C15: list_memos by the anonymous caller with default arguments returns
\* only memos that are PUBLIC and NORMAL, each one a memo of the store that
\* the anonymous caller may read; nothing of any other memo is returned.
C15_AnonymousList ==
  AnonymousListed =>
    \A i \in 1..Len(last.body.memos) :
      LET item == last.body.memos[i]
          row == RowNamed(item.name)
      IN /\ item.visibility = Public
         /\ item.state = Normal
         /\ row # Nil
         /\ checkMemoAccess(row, Anonymous)
         /\ item = storeMemoToJSON(row)

C15_Witness ==
  /\ AnonymousListed
  /\ last.req.args = NoArgs
  /\ Len(last.body.memos) = 1
  /\ \E id \in DOMAIN memos : memos[id].Visibility = Protected
                                  /\ memos[id].RowStatus = Normal

----------------------------------------------------------------------------
(* Page window *)

\* A list_memos answer, which carries the query sent to the store.
Listed == last.op = "list_memos" /\ last.kind = "text"

\* The page index the handler works with: the requested one, at least 0.
EffectivePage(args) ==
  IF "page" \in DOMAIN args /\ args["page"] > 0 THEN args["page"] ELSE 0

\* The store is asked for one row more than the page size n, at offset
\* page * n, and the answer holds at most n memos.
WindowOf(n) ==
  /\ n \in 1..100
  /\ last.find.Limit = n + 1
  /\ last.find.Offset = EffectivePage(last.req.args) * n
  /\ Len(last.body.memos) <= n

\* C20 as stated: the page size is 20 when page_size is absent and the
\* requested value clamped into [1,100] otherwise, so 0 and negative values
\* yield 1.
C20_PageSizeClamped ==
  Listed =>
    LET args == last.req.args
    IN WindowOf(IF "page_size" \notin DOMAIN args THEN 20
                ELSE IF args["page_size"] < 1 THEN 1
                ELSE IF args["page_size"] > 100 THEN 100
                ELSE args["page_size"])

\* C20, amended: the page size lies in [1,100]: it is 20 when page_size is
\* absent, zero or negative, 100 when page_size is above 100, and the
\* requested value otherwise; the page index is the requested page, at
\* least 0; the store is queried with limit = page size + 1 and
\* offset = page * page size.
C20_PageSizeWindow ==
  Listed =>
    LET args == last.req.args
    IN WindowOf(IF "page_size" \notin DOMAIN args THEN 20
                ELSE IF args["page_size"] < 1 THEN 20
                ELSE IF args["page_size"] > 100 THEN 100
                ELSE args["page_size"])

C20_Witness ==
  /\ Listed
  /\ "page_size" \in DOMAIN last.req.args /\ last.req.args["page_size"] = 0
  /\ "page" \in DOMAIN last.req.args /\ last.req.args["page"] = 1
  /\ last.find.Limit = 21
  /\ last.find.Offset = 20

----------------------------------------------------------------------------
(* Anonymous writes *)

WriteTools == {"create_memo", "update_memo", "delete_memo", "create_memo_comment"}

\* C16: create_memo, update_memo, delete_memo and create_memo_comment called
\* by the anonymous caller answer with the unauthenticated error in a step
\* that leaves memos and relations as they were, and no call of the
\* anonymous caller to one of them is ever in progress.
C16_AnonymousWrites ==
  [][/\ (/\ last = NoResult
         /\ last'.op \in WriteTools
         /\ last'.caller = Anonymous) =>
          /\ last'.kind = "error"
          /\ last'.err = ErrUnauthenticated
          /\ memos' = memos
          /\ relations' = relations
          /\ nextID' = nextID
      /\ \A s \in Slots :
           (calls'[s] # Idle /\ calls'[s].call.op \in WriteTools) =>
             calls'[s].call.caller # Anonymous]_vars

C16_Witness ==
  /\ last.op = "create_memo_comment"
  /\ last.caller = Anonymous
  /\ last.err = ErrUnauthenticated
  /\ RowNamed(last.req.name) # Nil
  /\ RowNamed(last.req.name).Visibility = Public

----------------------------------------------------------------------------
(* Comments and their parent *)

\* C17: a caller for whom list_memo_comments on a parent succeeds, and who
\* may read the parent at that moment, receives every comment that is linked
\* to the parent and exists in the store.
C17_CommentsFollowParent ==
  [][\A s \in Slots :
       (/\ calls[s].pc = "comments_memos"
        /\ last = NoResult
        /\ last'.op = "list_memo_comments" /\ last'.kind = "text"
        /\ RowNamed(last'.req.name) # Nil
        /\ checkMemoAccess(RowNamed(last'.req.name), last'.caller)) =>
         \A id \in calls[s].commentIDs \cap DOMAIN memos :
           \E i \in 1..Len(last'.body) :
             last'.body[i].name = MemoName(memos[id].UID)]_vars

\* C18: every tool call ends with a success payload or a per-call error
\* result; none ends without a result.
C18_NeverAborts == last.kind \in {"none", "text", "error"}

\* C19: while a create_memo_comment has created its comment memo and not yet
\* the relation, no comment relation has the comment as its source, and a
\* list_memo_comments on the same parent that answers in that state does not
\* return the comment.
C19_IntermediateState ==
  [][\A s \in Slots : calls[s].pc = "comment_link" =>
       /\ CommentRelationsOf(relations, calls[s].comment.UID) = {}
       /\ (/\ last = NoResult
           /\ last'.op = "list_memo_comments" /\ last'.kind = "text"
           /\ parseMemoUID(last'.req.name).uid = calls[s].parent.UID) =>
            \A i \in 1..Len(last'.body) :
              last'.body[i].name # MemoName(calls[s].comment.UID)]_vars

C19_Witness ==
  /\ last.op = "list_memo_comments" /\ last.kind = "text"
  /\ \E s \in Slots :
       /\ calls[s].pc = "comment_link"
       /\ calls[s].parent.UID = parseMemoUID(last.req.name).uid
       /\ calls[s].comment.ID \in DOMAIN memos
       /\ memos[calls[s].comment.ID].ParentUID = calls[s].parent.UID
       /\ checkMemoAccess(memos[calls[s].comment.ID], last.caller)
       /\ CommentRelationsOf(relations, calls[s].comment.UID) = {}
       /\ last.body = <<>>

----------------------------------------------------------------------------
(* list_memos: state and filter *)

\* C21: every memo list_memos returns has the requested row status, and
\* NORMAL when state is absent or the empty string; a state other than
\* NORMAL and ARCHIVED yields the validation error and no store query.
C21_ListState ==
  last.op = "list_memos" =>
    LET state == GetArg(last.req.args, "state", "")
    IN /\ state \notin {"", Normal, Archived} =>
            /\ last.kind = "error" /\ last.err = ErrState
            /\ last.find = Nil
       /\ last.kind = "text" =>
            \A i \in 1..Len(last.body.memos) :
              last.body.memos[i].state = IF state = "" THEN Normal ELSE state

\* The restriction applyVisibilityFilter stands for: PUBLIC only for the
\* anonymous caller; own memo, or PUBLIC or PROTECTED, for any other.
VisibleTo(m, c) ==
  IF c = Anonymous THEN m.Visibility = Public
  ELSE m.CreatorID = c \/ m.Visibility \in {Public, Protected}

\* A list_memos answer to a call that supplied a filter.
ListedWithFilter == Listed /\ "filter" \in DOMAIN last.req.args

\* C22: a filter supplied to list_memos only narrows the result: every memo
\* returned satisfies the caller's visibility restriction and the filter,
\* and is a memo the same call without the filter would match.
C22_FilterNarrows ==
  ListedWithFilter =>
    LET args == last.req.args
        plain == [k \in DOMAIN args \ {"filter"} |-> args[k]]
        state == GetArg(args, "state", Normal)
    IN \A i \in 1..Len(last.body.memos) :
         LET row == RowNamed(last.body.memos[i].name)
         IN /\ row # Nil
            /\ VisibleTo(row, last.caller)
            /\ EvalFilter(args["filter"], row)
            /\ row.ID \in MatchingRows(listMemosFind(last.caller, plain, state))

C22_Witness ==
  /\ ListedWithFilter
  /\ last.caller = 2
  /\ last.req.args["filter"].kind = "creator_or_visibility"
  /\ last.req.args["filter"].visibilities = {Private}
  /\ Len(last.body.memos) = 1
  /\ \E id \in DOMAIN memos :
       /\ memos[id].Visibility = Private /\ memos[id].CreatorID = 1
       /\ memos[id].RowStatus = last.body.memos[1].state

----------------------------------------------------------------------------
(* search_memos *)

\* q occurs in text as a contiguous run of characters.
Contains(text, q) ==
  \E i \in 0..(Len(text) - Len(q)) : \A k \in 1..Len(q) : text[i + k] = q[k]

\* C25: search_memos with a non-empty query asks the store for 50 rows from
\* offset 0 and returns at most 50 memos, each NORMAL, containing the query
\* in its content and within the caller's visibility restriction, whatever
\* other argument the call carries; an empty or absent query yields an error
\* result and no store query.
C25_Search ==
  last.op = "search_memos" =>
    LET q == GetArg(last.req.args, "query", <<>>)
    IN /\ q = <<>> =>
            /\ last.kind = "error" /\ last.err = ErrQueryRequired
            /\ last.find = Nil
       /\ last.kind = "text" =>
            /\ last.find.Limit = 50 /\ last.find.Offset = 0
            /\ Len(last.body) <= 50
            /\ \A i \in 1..Len(last.body) :
                 LET row == RowNamed(last.body[i].name)
                 IN /\ row # Nil
                    /\ last.body[i] = storeMemoToJSON(row)
                    /\ row.RowStatus = Normal
                    /\ Contains(row.Content, q)
                    /\ VisibleTo(row, last.caller)

C25_Witness ==
  /\ last.op = "search_memos" /\ last.kind = "text"
  /\ last.caller = Anonymous
  /\ GetArg(last.req.args, "state", "") = Archived
  /\ Len(last.body) = 1
  /\ \E id \in DOMAIN memos :
       /\ memos[id].RowStatus = Archived /\ memos[id].Visibility = Public
       /\ Contains(memos[id].Content, last.req.args["query"])

----------------------------------------------------------------------------
(* list_tags *)

\* The NORMAL, non-comment memos within caller c's visibility restriction.
TagSources(c) ==
  {id \in DOMAIN memos :
     /\ memos[id].RowStatus = Normal
     /\ memos[id].ParentUID = EmptyUID
     /\ VisibleTo(memos[id], c)}

TagsOf(m) == IF m.Payload = Nil THEN {} ELSE SeqRange(m.Payload.Tags)

\* C26: list_tags answers with exactly one entry per tag of the NORMAL,
\* non-comment memos inside the caller's visibility restriction, counted by
\* the number of those memos carrying it, ordered by count descending and
\* then tag ascending; with no such memo the answer is the empty list.
C26_ListTags ==
  (last.op = "list_tags" /\ last.kind = "text") =>
    LET entries == last.body
        sources == TagSources(last.caller)
    IN /\ {entries[i].tag : i \in 1..Len(entries)}
            = UNION {TagsOf(memos[id]) : id \in sources}
       /\ \A i \in 1..Len(entries) :
            entries[i].count
              = Cardinality({id \in sources : entries[i].tag \in TagsOf(memos[id])})
       /\ \A i, j \in 1..Len(entries) :
            i < j =>
              \/ entries[i].count > entries[j].count
              \/ /\ entries[i].count = entries[j].count
                 /\ StringLess(entries[i].tag, entries[j].tag)
       /\ memos = <<>> => entries = <<>>

C26_Witness ==
  /\ last.op = "list_tags" /\ last.kind = "text"
  /\ last.caller = 2
  /\ last.body = <<[tag |-> <<"a">>, count |-> 1], [tag |-> <<"b">>, count |-> 1]>>
  /\ \E id \in DOMAIN memos :
       /\ memos[id].CreatorID = 1 /\ memos[id].Visibility = Private
       /\ memos[id].RowStatus = Normal /\ memos[id].ParentUID = EmptyUID
       /\ <<"b">> \in TagsOf(memos[id])

----------------------------------------------------------------------------
(* The memo resource *)

\* What get_memo answers, on the same table and for the same caller, for the
\* name memos/<uid> made of this URI's uid.
GetMemoTwin ==
  getMemoResult(memos,
                Call("get_memo", last.caller,
                     [name |-> MemoName(last.req.uri.rest)]),
                TRUE)

\* C27: a resource read ends in resource contents or in a handler error,
\* never in a tool error result; a URI without the prefix memo://memos/ or
\* with an empty uid is rejected; and, store failures aside, the read of
\* memo://memos/<uid> succeeds exactly when get_memo on memos/<uid> succeeds
\* for the same caller.
C27_ResourceAsGetMemo ==
  last.op = "read_resource" =>
    LET uri == last.req.uri
    IN /\ last.kind \in {"resource", "handler_error"}
       /\ (uri.prefix # "memo://memos/" \/ uri.rest = EmptyUID) =>
            (last.kind = "handler_error" /\ last.err = ErrMemoURI)
       /\ (uri.prefix = "memo://memos/" /\ last.err # ErrGetMemo) =>
            (last.kind = "resource" <=> GetMemoTwin.kind = "text")
       /\ last.kind = "resource" =>
            /\ GetMemoTwin.kind = "text"
            /\ last.body.name = GetMemoTwin.body.name
            /\ last.body.content = GetMemoTwin.body.content

C27_Witness ==
  /\ last.op = "read_resource" /\ last.kind = "handler_error"
  /\ last.err = ErrDenied /\ last.caller = 2
  /\ GetMemoTwin.kind = "error" /\ GetMemoTwin.err = ErrDenied

----------------------------------------------------------------------------
(* create_memo_comment and list_memo_comments: the parent *)

\* Why a call on this parent must be refused; "" when it must not be.
ParentRefusal(parent, caller) ==
  IF parent = Nil THEN ErrNotFound
  ELSE IF ~CanRead(parent, caller) THEN ErrDenied
  ELSE ""

\* C23: create_memo_comment by an authenticated caller goes on to the store
\* writes only with a non-empty content and a parent that exists and that
\* the caller can read; otherwise it answers content-required, not-found or
\* permission-denied and leaves the memo and relation tables as they were.
C23_CommentRefused ==
  [][
    last = NoResult =>
      /\ \A s \in Slots :
           (/\ calls[s] = Idle /\ calls'[s] # Idle
            /\ calls'[s].call.op = "create_memo_comment") =>
             /\ calls'[s].call.req.content # <<>>
             /\ ParentRefusal(RowNamed(calls'[s].call.req.name),
                              calls'[s].call.caller) = ""
      /\ (/\ last'.op = "create_memo_comment" /\ calls' = calls
          /\ last'.caller # Anonymous) =>
           /\ last'.kind = "error"
           /\ last'.err = IF last'.req.content = <<>> THEN ErrContentRequired
                          ELSE ParentRefusal(RowNamed(last'.req.name), last'.caller)
           /\ last'.err # ""
           /\ memos' = memos /\ relations' = relations /\ nextID' = nextID
  ]_vars

C23_Witness ==
  /\ last.op = "create_memo_comment" /\ last.err = ErrDenied
  /\ last.req.content # <<>>
  /\ RowNamed(last.req.name) # Nil
  /\ RowNamed(last.req.name).Visibility = Private
  /\ memos # <<>> /\ relations = {}

\* The memos that are the source of a comment relation to the parent.
CommentSources(rels, parentID) ==
  {r.MemoID : r \in {x \in rels : /\ x.Type = MemoRelationComment
                                  /\ x.RelatedMemoID = parentID}}

\* C24: list_memo_comments answers not-found or permission-denied when the
\* parent is missing or unreadable by the caller; with no comment relation to
\* the parent it answers the empty list; otherwise it answers exactly the
\* memos that are the source of such a relation and that the caller may
\* read, each once, leaving the others out.
C24_ListComments ==
  [][
    last = NoResult =>
      /\ (last'.op = "list_memo_comments" /\ calls' = calls) =>
           /\ last'.kind = "error"
           /\ last'.err = ParentRefusal(RowNamed(last'.req.name), last'.caller)
           /\ last'.err # ""
      /\ \A s \in Slots :
           /\ (/\ calls[s] = Idle /\ calls'[s] # Idle
               /\ calls'[s].call.op = "list_memo_comments") =>
                /\ ParentRefusal(RowNamed(calls'[s].call.req.name),
                                 calls'[s].call.caller) = ""
                /\ calls'[s].parentID = RowNamed(calls'[s].call.req.name).ID
           /\ (calls[s].pc = "comments_relations" /\ calls'[s] # calls[s]) =>
                LET sources == CommentSources(relations, calls[s].parentID)
                IN IF calls'[s] = Idle
                   THEN \/ last'.kind = "error" /\ last'.err = ErrListRelations
                        \/ /\ sources = {}
                           /\ last'.kind = "text" /\ last'.body = <<>>
                   ELSE sources # {} /\ calls'[s].commentIDs = sources
           /\ (calls[s].pc = "comments_memos" /\ calls'[s] # calls[s]) =>
                LET readable == {id \in calls[s].commentIDs \cap DOMAIN memos :
                                   CanRead(memos[id], calls[s].call.caller)}
                IN \/ last'.kind = "error" /\ last'.err = ErrListComments
                   \/ /\ last'.kind = "text"
                      /\ Len(last'.body) = Cardinality(readable)
                      /\ {last'.body[i] : i \in 1..Len(last'.body)}
                           = {storeMemoToJSON(memos[id]) : id \in readable}
  ]_vars

C24_Witness ==
  /\ last.op = "list_memo_comments" /\ last.kind = "text"
  /\ last.body = <<>>
  /\ RowNamed(last.req.name) # Nil
  /\ \E id \in CommentSources(relations, RowNamed(last.req.name).ID) :
       /\ id \in DOMAIN memos
       /\ memos[id].Visibility = Private
       /\ memos[id].CreatorID # last.caller

----------------------------------------------------------------------------
(* update_memo: validation *)

InvalidVisibility(args) ==
  GetArg(args, "visibility", "") \notin {"", Public, Protected, Private}
InvalidState(args) == GetArg(args, "state", "") \notin {"", Normal, Archived}

\* C28: an update_memo call by the owner whose visibility or state argument
\* is not one of the allowed values answers the validation error of the
\* first such argument and writes nothing, whatever valid content, other
\* enum value or pinned it also carries; no such call reaches the store
\* write.
C28_UpdateValidation ==
  [][
    last = NoResult =>
      /\ \A s \in Slots :
           (/\ calls[s] = Idle /\ calls'[s] # Idle
            /\ calls'[s].call.op = "update_memo") =>
             /\ ~InvalidVisibility(calls'[s].call.req.args)
             /\ ~InvalidState(calls'[s].call.req.args)
      /\ (/\ last'.op = "update_memo" /\ calls' = calls
          /\ RowNamed(last'.req.name) # Nil
          /\ last'.caller # Anonymous
          /\ RowNamed(last'.req.name).CreatorID = last'.caller
          /\ last'.err # ErrGetMemo
          /\ (InvalidVisibility(last'.req.args) \/ InvalidState(last'.req.args))) =>
           /\ last'.kind = "error"
           /\ last'.err = IF InvalidVisibility(last'.req.args)
                          THEN ErrVisibility ELSE ErrState
           /\ memos' = memos /\ relations' = relations
  ]_vars

C28_Witness ==
  /\ last.op = "update_memo" /\ last.kind = "error" /\ last.err = ErrState
  /\ GetArg(last.req.args, "content", <<>>) = ContentOther
  /\ GetArg(last.req.args, "visibility", "") = Public
  /\ GetArg(last.req.args, "pinned", FALSE)
  /\ RowNamed(last.req.name) # Nil
  /\ RowNamed(last.req.name).Content # ContentOther
  /\ RowNamed(last.req.name).Visibility = Private
  /\ ~RowNamed(last.req.name).Pinned

----------------------------------------------------------------------------
(* Confidentiality *)

\* The memos a response carries, each as it was read from the store.
ResponseMemos ==
  IF last.kind = "resource" THEN {last.body}
  ELSE IF last.kind # "text" THEN {}
  ELSE IF last.op \in {"get_memo", "create_memo", "update_memo",
                       "create_memo_comment"} THEN {last.body}
  ELSE IF last.op = "list_memos" THEN SeqRange(last.body.memos)
  ELSE IF last.op \in {"search_memos", "list_memo_comments"}
       THEN SeqRange(last.body)
  ELSE {}

\* C29: a memo that was PRIVATE when it was read is carried only by a
\* response to its creator, in whatever order the steps of the operations
\* interleave; no memo of the store has the anonymous identity 0 as creator,
\* so no response to an anonymous caller carries a PRIVATE memo.
C29_PrivateConfidential ==
  /\ \A m \in ResponseMemos : m.visibility = Private => m.creator = last.caller
  /\ \A id \in DOMAIN memos : memos[id].CreatorID # Anonymous
  /\ last.caller = Anonymous => \A m \in ResponseMemos : m.visibility # Private

C29_Witness ==
  /\ last.op = "search_memos" /\ last.kind = "text"
  /\ last.caller = 2
  /\ Len(last.body) = 1 /\ last.body[1].creator = 2
  /\ \E id \in DOMAIN memos :
       /\ memos[id].CreatorID = 1 /\ memos[id].Visibility = Private
       /\ memos[id].RowStatus = Normal /\ memos[id].ParentUID = EmptyUID
       /\ Contains(memos[id].Content, last.req.args["query"])

====
